---- MODULE Spec2Model ----
(***************************************************************************)
(* A model of tweetpdf.py: the media download engine (_download_media and  *)
(* its fetch_one coroutines under one asyncio event loop), the font        *)
(* bootstrap (_ensure_fonts) and the stages of main().                     *)
(*                                                                         *)
(* Strings that the code inspects character by character (host names) are  *)
(* sequences of one-character strings.  A file is a record: whether it     *)
(* exists, its size, and who wrote it (0: it was there before the run).    *)
(***************************************************************************)
EXTENDS Integers, Sequences, FiniteSets, TLC

\* ------------------------------------------------------------------ bounds

\* The largest --concurrency value the inputs are drawn from.
MaxConc == 2
\* max_bytes, scaled: a body of MaxBytes is the largest accepted one.
MaxBytes == 1

\* -------------------------------------------------------- program constants

\* for attempt in range(4)
MaxAttempts == 4
\* (a variant that gives up one failure later)
LastAttemptLate == 3 + 1
\* if attempt == 3: return
LastAttempt == 3
\* backoff = 1.0
InitialBackoff == 1
\* _ensure_fonts: for attempt in range(4); if attempt == 3: break; backoff = 1.0
FontMaxAttempts == 4
FontLastAttempt == 3
FontInitialBackoff == 1
\* r.status_code == 200
StatusOK == 200
\* (a variant that also retries 404)
TransientStatusesWide == {404, 429, 500, 502, 503, 504}
\* r.status_code in (429, 500, 502, 503, 504)
TransientStatuses == {429, 500, 502, 503, 504}

\* ---------------------------------------------------------------- strings

UpperOf == [c \in {"p", "c", "x", "."} |-> CASE c = "p" -> "P" [] c = "c" -> "C" [] c = "x" -> "X" [] OTHER -> c]

\* str.lower() of one character, and of a string
LowerChar(c) ==
    IF \E l \in DOMAIN UpperOf : UpperOf[l] = c /\ l # c
    THEN CHOOSE l \in DOMAIN UpperOf : UpperOf[l] = c /\ l # c
    ELSE c

Lower(s) == [i \in 1..Len(s) |-> LowerChar(s[i])]

\* str.endswith(suffix)
EndsWith(s, suffix) ==
    /\ Len(suffix) =< Len(s)
    /\ SubSeq(s, Len(s) - Len(suffix) + 1, Len(s)) = suffix

\* urlparse(url).hostname or "": the host of the URL, lower-cased by urlparse;
\* a URL with no host gives the empty string.  (urlparse raises on a URL it
\* cannot split, such as one with an unclosed bracket: url.parses is FALSE.)
Hostname(url) == Lower(url.host)

\* (a variant that matches any host ending in an allowed one)
AllowedHostSuffix(url, allow) ==
    LET host == Lower(Hostname(url))
        Match(h) == EndsWith(host, Lower(h))
    IN  url.parses /\ \E k \in 1..Len(allow) : Match(allow[k])

\* _allowed_host(url, allow_hosts)
AllowedHost(url, allow) ==
    LET host == Lower(Hostname(url))
        Match(h) == host = Lower(h) \/ EndsWith(host, <<".">> \o Lower(h))
    IN  IF ~url.parses THEN FALSE
        ELSE \E k \in 1..Len(allow) : Match(allow[k])

\* _safe_ext_from_url(url): the lower-cased extension of the path, or ".bin"
SafeExt(url) ==
    CASE url.ext = "" -> ".bin"
      [] url.ext \in {"jpg", "JPG"} -> ".jpg"
      [] url.ext \in {"mp4", "MP4"} -> ".mp4"

\* ------------------------------------------------------------------ tasks

\* media_cache_dir / f"{t.tweet_id}_{i:02d}{_safe_ext_from_url(url)}"
OutPath(row, i, url) == <<row.tweet_id, i, SafeExt(url)>>

\* the tasks one row contributes, in enumerate() order (i counts from 0)
RowTasks(rows, r, allow) ==
    LET urls == rows[r].media_urls
        all  == [i \in 1..Len(urls) |->
                    [row |-> r, idx |-> i - 1, url |-> urls[i],
                     out |-> OutPath(rows[r], i - 1, urls[i])]]
        Keep(t) == AllowedHost(t.url, allow)
    IN  SelectSeq(all, Keep)

RECURSIVE TasksUpTo(_, _, _)
TasksUpTo(rows, n, allow) ==
    IF n = 0 THEN <<>>
    ELSE TasksUpTo(rows, n - 1, allow) \o RowTasks(rows, n, allow)

\* the task list _download_media builds
BuildTasks(rows, allow) == TasksUpTo(rows, Len(rows), allow)

\* FONT_SPECS, by filename, in order
FONT_SPECS == <<"NotoSans-Regular.ttf", "NotoSansCJKsc-Regular.otf">>
FontNames == {FONT_SPECS[i] : i \in 1..Len(FONT_SPECS)}

\* (a variant that never finds the file)
CacheHitNever(fs, out) == FALSE

\* the cache probe: out.exists() and out.stat().st_size > 0
CacheHit(fs, out) == fs[out].exists /\ fs[out].size > 0

\* ---------------------------------------------------------------- inputs

NoFile == [exists |-> FALSE, size |-> 0, by |-> 0]
\* a file that was on disk before the run
OldFile(n) == [exists |-> TRUE, size |-> n, by |-> 0]

TweetIds == {"t1", "t2"}
Exts == {".jpg", ".mp4", ".bin"}

\* hosts as they appear in the CSV
HostGood == <<"P", ".", "c">>
HostSub == <<"x", ".", "p", ".", "C">>
HostEvil == <<"x", "p", ".", "c">>
HostOther == <<"x", ".", "c">>
HostDotless == <<"c">>
HostNone == <<>>
Hosts == {HostGood, HostSub, HostEvil, HostOther, HostDotless, HostNone}

Url(h, e) == [host |-> h, ext |-> e, parses |-> TRUE]
\* a reference urlparse raises on; what stands where the host would be is
\* an allowed host
Unparsable == [host |-> <<"p", ".", "c">>, ext |-> "jpg", parses |-> FALSE]
Urls == {Url(h, e) : h \in Hosts, e \in {"jpg", "JPG", ""}} \cup {Unparsable}

\* --allow-hosts after the split on commas
AllowInputs == {<< <<"p", ".", "c">> >>, << <<"q">>, <<"p", ".", "C">> >>}

Row(id, urls) == [tweet_id |-> id, media_urls |-> urls]

\* every destination path a task of these inputs can have
Dests == TweetIds \X (0..2) \X Exts

OutsOf(rs, allow) == {BuildTasks(rs, allow)[k].out : k \in 1..Len(BuildTasks(rs, allow))}

\* the cache directory before the run: nothing outside `outs`, and in `outs`
\* any mix of absent, zero-byte and non-empty files
FilesOver(outs) ==
    {[d \in Dests |-> IF d \in outs THEN g[d] ELSE NoFile] :
        g \in [outs -> {NoFile, OldFile(0), OldFile(MaxBytes)}]}

NoFiles == [d \in Dests |-> NoFile]

\* three admitted tasks among five references
RowsThree ==
    << Row("t1", <<Url(HostGood, "jpg"), Url(HostSub, ""), Url(HostEvil, "jpg")>>),
       Row("t2", <<Url(HostNone, "jpg"), Url(HostGood, "MP4")>>) >>

\* one or two rows with one reference each, any hosts; the ids may coincide
RowsSmall ==
    {<<Row("t1", <<u>>)>> : u \in Urls}
    \cup {<<Row("t1", <<Url(h1, "jpg")>>), Row(id, <<Url(h2, "JPG")>>)>> :
            h1 \in Hosts, h2 \in Hosts, id \in TweetIds}
    \cup {<<Row("t1", <<>>)>>, <<>>}

\* one row with two admitted references
RowsPair == <<Row("t1", <<Url(HostGood, "jpg"), Url(HostSub, "jpg")>>)>>

\* what the server (or the transport) does to one request
Statuses == {StatusOK, 404, 503}
BodySizes == 0..(MaxBytes + 1)
\* no host: the answer comes from the host of the requested URL
NoRedirect == <<>>
TransportError == [err |-> TRUE, status |-> 0, size |-> 0, redirect |-> NoRedirect]
\* the client is built with follow_redirects=True: when the host asked answers
\* with a redirect, client.get requests the target itself and returns the
\* target's response.  `redirect` is the host that was asked last.
Redirected ==
    {[err |-> FALSE, status |-> s, size |-> MaxBytes, redirect |-> HostEvil] :
        s \in {StatusOK, 404}}
    \cup {[err |-> FALSE, status |-> StatusOK, size |-> MaxBytes, redirect |-> HostSub]}
Responses ==
    {[err |-> FALSE, status |-> s, size |-> z, redirect |-> NoRedirect] :
        s \in Statuses, z \in BodySizes}
    \cup Redirected
    \cup {TransportError}

\* a server that answers by a script: k transient failures (a 503 and a
\* transport error in turn), then `last` for every later request
Transient(i) ==
    IF i % 2 = 1
    THEN [err |-> FALSE, status |-> 503, size |-> 0, redirect |-> NoRedirect]
    ELSE TransportError
Script(k, last) == [i \in 1..MaxAttempts |-> IF i =< k THEN Transient(i) ELSE last]
GoodBody == [err |-> FALSE, status |-> StatusOK, size |-> MaxBytes, redirect |-> NoRedirect]
NotFound == [err |-> FALSE, status |-> 404, size |-> 0, redirect |-> NoRedirect]
Scripts ==
    {[k |-> k, last |-> l] : k \in 0..LastAttempt, l \in {GoodBody, NotFound}}
    \cup {[k |-> MaxAttempts, last |-> GoodBody]}
\* the server is free to answer anything
NoScript == <<>>

\* ------------------------------------------------------------------ state

VARIABLES
    args,         \* the parsed command line
    script,       \* what the server answers to the requests of each task, if fixed
    cfgerror,     \* the configuration error main() has raised, if any
    rows,         \* the TweetRows in output scope (tweet_id, media_urls)
    allow_hosts,  \* the host allowlist
    files,        \* media_cache_dir: destination -> file
    media_files,  \* row -> the row's media_files list
    stage,        \* where main() is
    tasks,        \* the task list of the running _download_media
    pc,           \* task -> where its fetch_one coroutine is
    attempt,      \* task -> the loop variable of `for attempt in range(4)`
    backoff,      \* task -> its backoff
    sem,          \* the value of the asyncio.Semaphore
    cur,          \* the response whose handling is running, task 0 if none
    pbar,         \* the progress bar's count
    nreq,         \* task -> client.get calls it has made (history)
    sleeps,       \* task -> the delays it has slept (history)
    outcome,      \* task -> how it ended (history)
    fontfiles,    \* font_dir: font -> file
    missing,      \* _ensure_fonts: the fonts still to download, in order
    fattempt,     \* _ensure_fonts: the loop variable of `for attempt in range(4)`
    fbackoff,     \* _ensure_fonts: backoff
    fnreq,        \* client.get calls made for the font being downloaded (history)
    fsleeps,      \* the delays slept for the font being downloaded (history)
    fontfail,     \* why a font download gave up, "none" if none did (history)
    ran,          \* the stages of main() that have begun (history)
    run,          \* which call of _download_media this is (history)
    firstOk,      \* the tasks that succeeded in the first call (history)
    cancelled     \* whether the environment has asked the run to stop

vars == <<args, rows, allow_hosts, script, files, media_files, stage, tasks, pc, attempt,
          backoff, sem, cur, pbar, nreq, sleeps, outcome, fontfiles, missing,
          fattempt, fbackoff, fnreq, fsleeps, fontfail, ran, run, firstOk, cancelled, cfgerror>>

inputs == <<args, rows, allow_hosts, script>>
fontvars == <<fontfiles, missing, fattempt, fbackoff, fnreq, fsleeps, fontfail>>
\* what the coroutines of a run never touch
outside == <<inputs, fontvars, ran, run, firstOk, cancelled, cfgerror>>

TaskIds == 1..Len(tasks)
NoCur == [task |-> 0, resp |-> TransportError]
InFlight == {t \in TaskIds : pc[t] = "inflight"}

\* ------------------------------------------------- _download_media, runner

\* lines 222-245: build the task list; with no task return at once, else
\* create the progress bar, the client and the semaphore and gather the tasks
DownloadMedia ==
    /\ stage = "media"
    /\ ran' = ran \cup {"media"}
    /\ LET ts == BuildTasks(rows, allow_hosts)
           ids == 1..Len(ts)
       IN  /\ tasks' = ts
           /\ stage' = IF ts = <<>> THEN "render" ELSE "running"
           /\ pc' = [t \in ids |-> "new"]
           /\ attempt' = [t \in ids |-> 0]
           /\ backoff' = [t \in ids |-> 0]
           /\ nreq' = [t \in ids |-> 0]
           /\ sleeps' = [t \in ids |-> <<>>]
           /\ outcome' = [t \in ids |-> "none"]
           /\ sem' = args.concurrency
           /\ pbar' = 0
           /\ cur' = NoCur
    /\ UNCHANGED <<inputs, fontvars, run, firstOk, cancelled, cfgerror, files, media_files>>

\* (a variant that appends to the first record's list)
AttachFirstRow(mf, t) == [mf EXCEPT ![1] = Append(@, tasks[t].out)]

\* t.media_files.append(out.resolve().as_uri())
Attach(mf, t) == [mf EXCEPT ![tasks[t].row] = Append(@, tasks[t].out)]

\* (a variant that leaves the file empty)
WriteBytesTruncated(fs, t, n) ==
    [fs EXCEPT ![tasks[t].out] = [exists |-> TRUE, size |-> 0, by |-> t]]

\* out.write_bytes(r.content)
WriteBytes(fs, t, n) == [fs EXCEPT ![tasks[t].out] = [exists |-> TRUE, size |-> n, by |-> t]]

\* the task returns: the finally clause updates the progress bar
Finish(t, how) ==
    /\ pc' = [pc EXCEPT ![t] = "done"]
    /\ outcome' = [outcome EXCEPT ![t] = how]
    /\ pbar' = pbar + 1
    /\ UNCHANGED stage

\* (a variant that sends the request whether or not a slot is free)
EnterAttemptUnguarded(t) ==
    /\ sem' = sem - 1
    /\ pc' = [pc EXCEPT ![t] = "inflight"]
    /\ nreq' = [nreq EXCEPT ![t] = @ + 1]

\* `async with sem:` at the top of an attempt: with a free slot the request
\* goes out at once, otherwise the coroutine waits for one
EnterAttempt(t) ==
    IF sem > 0
    THEN /\ sem' = sem - 1
         /\ pc' = [pc EXCEPT ![t] = "inflight"]
         /\ nreq' = [nreq EXCEPT ![t] = @ + 1]
    ELSE /\ pc' = [pc EXCEPT ![t] = "wait"]
         /\ UNCHANGED <<sem, nreq>>

\* fetch_one up to its first suspension.  gather() starts the coroutines in
\* task order and each runs until it first suspends, so every cache probe
\* happens before any response is handled.
Start(t) ==
    /\ stage = "running" /\ cur.task = 0
    /\ pc[t] = "new"
    /\ \A u \in 1..(t - 1) : pc[u] # "new"
    /\ IF CacheHit(files, tasks[t].out)
       THEN /\ media_files' = Attach(media_files, t)
            /\ Finish(t, "hit")
            /\ UNCHANGED <<backoff, sem, nreq>>
       ELSE /\ backoff' = [backoff EXCEPT ![t] = InitialBackoff]
            /\ EnterAttempt(t)
            /\ UNCHANGED <<media_files, outcome, pbar, stage>>
    /\ UNCHANGED <<outside, files, tasks, attempt, cur, sleeps>>

\* (a variant in which a freed slot wakes no waiter)
AcquireLostWakeup(t) ==
    /\ FALSE
    /\ UNCHANGED vars

\* a waiting coroutine gets a slot and issues its request
Acquire(t) ==
    /\ stage = "running" /\ cur.task = 0
    /\ pc[t] = "wait" /\ sem > 0
    /\ sem' = sem - 1
    /\ pc' = [pc EXCEPT ![t] = "inflight"]
    /\ nreq' = [nreq EXCEPT ![t] = @ + 1]
    /\ UNCHANGED <<outside, files, media_files, stage, tasks, attempt, backoff, cur,
                   pbar, sleeps, outcome>>

\* what client.get can return to the request task t has in flight
Answers(t) == IF script = NoScript THEN Responses ELSE {script[t][nreq[t]]}

\* (a variant that frees the slot only when client.get returns a response,
\* not when it raises)
RespondKeepOnError(t) ==
    /\ stage = "running" /\ cur.task = 0
    /\ pc[t] = "inflight"
    /\ \A u \in TaskIds : pc[u] # "new"
    /\ \E r \in Answers(t) :
          /\ cur' = [task |-> t, resp |-> r]
          /\ sem' = IF r.err THEN sem ELSE sem + 1
    /\ pc' = [pc EXCEPT ![t] = "got"]
    /\ UNCHANGED <<outside, files, media_files, stage, tasks, attempt, backoff,
                   pbar, nreq, sleeps, outcome>>

\* client.get returns a response or raises; leaving `async with sem` frees
\* the slot.  The coroutine then runs, unsuspended, to its next await or return.
Respond(t) ==
    /\ stage = "running" /\ cur.task = 0
    /\ pc[t] = "inflight"
    /\ \A u \in TaskIds : pc[u] # "new"
    /\ \E r \in Answers(t) : cur' = [task |-> t, resp |-> r]
    /\ sem' = sem + 1
    /\ pc' = [pc EXCEPT ![t] = "got"]
    /\ UNCHANGED <<outside, files, media_files, stage, tasks, attempt, backoff,
                   pbar, nreq, sleeps, outcome>>

\* (a variant in which the last failure leaves the coroutine and the batch)
OnExceptionRaise(t) ==
    IF attempt[t] = LastAttempt
    THEN /\ pc' = [pc EXCEPT ![t] = "done"]
         /\ outcome' = [outcome EXCEPT ![t] = "exhausted"]
         /\ pbar' = pbar + 1
         /\ stage' = "fatal"
         /\ UNCHANGED sleeps
    ELSE /\ pc' = [pc EXCEPT ![t] = "sleep"]
         /\ sleeps' = [sleeps EXCEPT ![t] = Append(@, backoff[t])]
         /\ UNCHANGED <<outcome, pbar, stage>>

\* (a variant that gives up at the first failure)
OnExceptionNoRetry(t) ==
    /\ Finish(t, "exhausted")
    /\ UNCHANGED sleeps

\* lines 267-271: the except clause
OnException(t) ==
    IF attempt[t] = LastAttempt
    THEN /\ Finish(t, "exhausted")
         /\ UNCHANGED sleeps
    ELSE /\ pc' = [pc EXCEPT ![t] = "sleep"]
         /\ sleeps' = [sleeps EXCEPT ![t] = Append(@, backoff[t])]
         /\ UNCHANGED <<outcome, pbar, stage>>

\* (a variant without the size check)
OnResponseNoLimit(t, r) ==
    IF r.status = StatusOK /\ r.size > 0
    THEN /\ files' = WriteBytes(files, t, r.size)
         /\ media_files' = Attach(media_files, t)
         /\ Finish(t, "ok")
         /\ UNCHANGED sleeps
    ELSE IF r.status \in TransientStatuses
         THEN /\ OnException(t)
              /\ UNCHANGED <<files, media_files>>
         ELSE /\ Finish(t, "status")
              /\ UNCHANGED <<files, media_files, sleeps>>

\* lines 258-266: what fetch_one does with the response r of task t
OnResponse(t, r) ==
    IF r.status = StatusOK /\ r.size > 0
    THEN IF r.size > MaxBytes
         THEN /\ Finish(t, "oversize")
              /\ UNCHANGED <<files, media_files, sleeps>>
         ELSE /\ files' = WriteBytes(files, t, r.size)
              /\ media_files' = Attach(media_files, t)
              /\ Finish(t, "ok")
              /\ UNCHANGED sleeps
    ELSE IF r.status \in TransientStatuses
         THEN /\ OnException(t)
              /\ UNCHANGED <<files, media_files>>
         ELSE /\ Finish(t, "status")
              /\ UNCHANGED <<files, media_files, sleeps>>

Handle ==
    /\ stage = "running" /\ cur.task # 0
    /\ IF cur.resp.err
       THEN /\ OnException(cur.task)
            /\ UNCHANGED <<files, media_files>>
       ELSE OnResponse(cur.task, cur.resp)
    /\ cur' = NoCur
    /\ UNCHANGED <<outside, tasks, attempt, backoff, sem, nreq>>

\* asyncio.sleep(backoff) is over: backoff *= 2 and the next attempt begins
Wake(t) ==
    /\ stage = "running" /\ cur.task = 0
    /\ pc[t] = "sleep"
    /\ backoff' = [backoff EXCEPT ![t] = @ * 2]
    /\ IF attempt[t] + 1 < MaxAttempts
       THEN /\ attempt' = [attempt EXCEPT ![t] = @ + 1]
            /\ EnterAttempt(t)
            /\ UNCHANGED <<outcome, pbar, stage>>
       ELSE \* range(4) is used up: the function body ends
            /\ Finish(t, "exhausted")
            /\ UNCHANGED <<attempt, sem, nreq>>
    /\ UNCHANGED <<outside, files, media_files, tasks, cur, sleeps>>

\* gather() is done: pbar.close(), the client closes, asyncio.run returns
RunnerReturn ==
    /\ stage = "running" /\ cur.task = 0
    /\ \A t \in TaskIds : pc[t] = "done"
    /\ stage' = "render"
    /\ UNCHANGED <<outside, files, media_files, tasks, pc, attempt, backoff, sem, cur,
                   pbar, nreq, sleeps, outcome>>

\* ----------------------------------------------------- the engine on its own

EngineInputs ==
    {[rows |-> RowsThree, files |-> NoFiles]}
    \cup {[rows |-> RowsPair, files |-> f] : f \in FilesOver(OutsOf(RowsPair, << <<"p", ".", "c">> >>))}
    \cup {[rows |-> rs, files |-> NoFiles] : rs \in RowsSmall}

\* nothing of a run exists yet
NoRun ==
    /\ tasks = <<>> /\ pc = <<>> /\ attempt = <<>> /\ backoff = <<>>
    /\ nreq = <<>> /\ sleeps = <<>> /\ outcome = <<>>
    /\ sem = 0 /\ cur = NoCur /\ pbar = 0
    /\ run = 1 /\ firstOk = {} /\ cancelled = FALSE
    /\ cfgerror = "none"

\* _ensure_fonts is not running
NoFontLoop ==
    /\ missing = <<>> /\ fattempt = 0 /\ fbackoff = 0
    /\ fnreq = 0 /\ fsleeps = <<>> /\ fontfail = "none"

\* the state at a call of _download_media from main(): the fonts are there,
\* the rows are read
Init ==
    /\ \E c \in 1..MaxConc :
           args = [version |-> FALSE, init |-> FALSE, csv |-> TRUE, concurrency |-> c]
    /\ \E i \in EngineInputs : rows = i.rows /\ files = i.files
    /\ allow_hosts \in AllowInputs
    /\ script = NoScript
    /\ media_files = [r \in 1..Len(rows) |-> <<>>]
    /\ stage = "media"
    /\ ran = {"fonts", "read"}
    /\ fontfiles = [f \in FontNames |-> OldFile(MaxBytes)]
    /\ NoFontLoop
    /\ NoRun

Next ==
    \/ DownloadMedia
    \/ \E t \in TaskIds : Start(t)
    \/ \E t \in TaskIds : Acquire(t)
    \/ \E t \in TaskIds : Respond(t)
    \/ Handle
    \/ \E t \in TaskIds : Wake(t)
    \/ RunnerReturn

Spec == Init /\ [][Next]_vars

\* The event loop runs every coroutine that is ready, every request ends in a
\* response or in an error (httpx.Timeout, line 239) and every sleep ends:
\* while a step of the run is possible, one is taken.
FairSpec == Init /\ [][Next]_vars /\ WF_vars(Next)

\* ------------------------------------------------------------ _ensure_fonts

\* lines 284-289: the fonts whose file does not exist are downloaded, in
\* FONT_SPECS order; with none missing the font faces are returned at once
EnsureFonts ==
    /\ stage = "fonts"
    /\ ran' = ran \cup {"fonts"}
    /\ LET Absent(f) == ~fontfiles[f].exists
           m == SelectSeq(FONT_SPECS, Absent)
       IN  /\ missing' = m
           /\ IF m = <<>>
              THEN /\ stage' = IF args.init THEN "exit" ELSE "read"
                   /\ UNCHANGED fbackoff
              ELSE /\ stage' = "fontloop"
                   /\ fbackoff' = FontInitialBackoff
    /\ fattempt' = 0 /\ fnreq' = 0 /\ fsleeps' = <<>>
    /\ UNCHANGED <<inputs, files, media_files, tasks, pc, attempt, backoff, sem, cur,
                   pbar, nreq, sleeps, outcome, fontfiles, fontfail, run, firstOk,
                   cancelled, cfgerror>>

\* lines 311-315 with ok = True: on to the next missing font, or return
FontDone ==
    /\ missing' = Tail(missing)
    /\ fattempt' = 0 /\ fnreq' = 0 /\ fsleeps' = <<>>
    /\ IF Tail(missing) = <<>>
       THEN /\ stage' = IF args.init THEN "exit" ELSE "read"
            /\ fbackoff' = 0
       ELSE /\ stage' = "fontloop"
            /\ fbackoff' = FontInitialBackoff
    /\ UNCHANGED fontfail

\* (a variant that goes on without the font, as the media run does)
FontFailedGoOn(why) ==
    /\ stage' = IF args.init THEN "exit" ELSE "read"
    /\ fontfail' = why
    /\ fnreq' = fnreq + 1
    /\ UNCHANGED <<missing, fattempt, fbackoff, fsleeps>>

\* lines 311-314 with ok = False: raise SystemExit
FontFailed(why) ==
    /\ stage' = "fatal"
    /\ fontfail' = why
    /\ fnreq' = fnreq + 1
    /\ UNCHANGED <<missing, fattempt, fbackoff, fsleeps>>

\* lines 304-310: the except clause, the sleep included (the loop is
\* synchronous)
FontOnException ==
    IF fattempt = FontLastAttempt
    THEN FontFailed("exhausted")
    ELSE IF fattempt + 1 < FontMaxAttempts
         THEN /\ fsleeps' = Append(fsleeps, fbackoff)
              /\ fbackoff' = fbackoff * 2
              /\ fattempt' = fattempt + 1
              /\ fnreq' = fnreq + 1
              /\ UNCHANGED <<stage, missing, fontfail>>
         ELSE /\ stage' = "fatal"
              /\ fontfail' = "exhausted"
              /\ fnreq' = fnreq + 1
              /\ fsleeps' = Append(fsleeps, fbackoff)
              /\ fbackoff' = fbackoff * 2
              /\ UNCHANGED <<missing, fattempt>>

\* lines 296-303: one request for the font being downloaded and what the loop
\* does with its response
FontOnResponse(r) ==
    IF r.status = StatusOK /\ r.size > 0
    THEN /\ fontfiles' = [fontfiles EXCEPT ![Head(missing)] =
                              [exists |-> TRUE, size |-> r.size, by |-> 1]]
         /\ FontDone
    ELSE IF r.status \in TransientStatuses
         THEN FontOnException /\ UNCHANGED fontfiles
         ELSE FontFailed("status") /\ UNCHANGED fontfiles

FontAttempt ==
    /\ stage = "fontloop"
    /\ \E r \in Responses :
          IF r.err
          THEN FontOnException /\ UNCHANGED fontfiles
          ELSE FontOnResponse(r)
    /\ UNCHANGED <<inputs, files, media_files, tasks, pc, attempt, backoff, sem, cur,
                   pbar, nreq, sleeps, outcome, ran, run, firstOk, cancelled, cfgerror>>

\* ------------------------------------------------------------------- main

\* (a variant without the check of --concurrency)
MainStartNoCheck ==
    /\ stage = "start"
    /\ stage' = IF args.version THEN "exit"
                ELSE IF args.init THEN "fonts"
                ELSE IF ~args.csv THEN "fatal"
                ELSE "fonts"
    /\ cfgerror' = IF args.version \/ args.init THEN "none"
                   ELSE IF ~args.csv THEN "csv"
                   ELSE "none"
    /\ UNCHANGED <<inputs, files, media_files, tasks, pc, attempt, backoff, sem, cur,
                   pbar, nreq, sleeps, outcome, fontvars, ran, run, firstOk, cancelled>>

\* lines 384-412: the checks of the command line up to the call of _ensure_fonts
MainStart ==
    /\ stage = "start"
    /\ stage' = IF args.version THEN "exit"
                ELSE IF args.init THEN "fonts"
                ELSE IF ~args.csv THEN "fatal"
                ELSE IF args.concurrency < 1 THEN "fatal"
                ELSE "fonts"
    /\ cfgerror' = IF args.version \/ args.init THEN "none"
                   ELSE IF ~args.csv THEN "csv"
                   ELSE IF args.concurrency < 1 THEN "concurrency"
                   ELSE "none"
    /\ UNCHANGED <<inputs, files, media_files, tasks, pc, attempt, backoff, sem, cur,
                   pbar, nreq, sleeps, outcome, fontvars, ran, run, firstOk, cancelled>>

\* lines 414-420: the rows are read, filtered and sorted
ReadRows ==
    /\ stage = "read"
    /\ ran' = ran \cup {"read"}
    /\ media_files' = [r \in 1..Len(rows) |-> <<>>]
    /\ stage' = "media"
    /\ UNCHANGED <<inputs, files, tasks, pc, attempt, backoff, sem, cur,
                   pbar, nreq, sleeps, outcome, fontvars, run, firstOk, cancelled, cfgerror>>

\* lines 429-430
RenderPdf ==
    /\ stage = "render"
    /\ ran' = ran \cup {"render"}
    /\ stage' = "cleanup"
    /\ UNCHANGED <<inputs, files, media_files, tasks, pc, attempt, backoff, sem, cur,
                   pbar, nreq, sleeps, outcome, fontvars, run, firstOk, cancelled, cfgerror>>

\* lines 432-435: _remove_cache deletes the cache directory
RemoveCache ==
    /\ stage = "cleanup"
    /\ ran' = ran \cup {"cleanup"}
    /\ files' = [d \in Dests |-> NoFile]
    /\ stage' = "exit"
    /\ UNCHANGED <<inputs, media_files, tasks, pc, attempt, backoff, sem, cur,
                   pbar, nreq, sleeps, outcome, fontvars, run, firstOk, cancelled, cfgerror>>

MainRows == {RowsPair, <<Row("t1", <<Url(HostEvil, "jpg")>>)>>}

\* the state as main() begins
MainInit ==
    /\ args \in [version : BOOLEAN, init : BOOLEAN, csv : BOOLEAN,
                 concurrency : (0 - 1)..MaxConc]
    /\ rows \in MainRows
    /\ allow_hosts \in AllowInputs
    /\ script = NoScript
    /\ files = NoFiles
    /\ fontfiles \in [FontNames -> {NoFile, OldFile(0), OldFile(MaxBytes)}]
    /\ media_files = [r \in 1..Len(rows) |-> <<>>]
    /\ stage = "start"
    /\ ran = {}
    /\ NoFontLoop
    /\ NoRun

MainNext ==
    \/ MainStart
    \/ EnsureFonts
    \/ FontAttempt
    \/ ReadRows
    \/ Next
    \/ RenderPdf
    \/ RemoveCache

MainSpec == MainInit /\ [][MainNext]_vars

\* ------------------------------------------------ _download_media called twice

\* a second call with the same rows and the same cache directory
Rerun ==
    /\ stage = "render" /\ run = 1
    /\ run' = 2
    /\ firstOk' = {t \in TaskIds : outcome[t] \in {"hit", "ok"}}
    /\ stage' = "media"
    /\ UNCHANGED <<inputs, files, media_files, tasks, pc, attempt, backoff, sem, cur,
                   pbar, nreq, sleeps, outcome, fontvars, ran, cancelled, cfgerror>>

TwiceNext == Next \/ Rerun

TwiceSpec == Init /\ [][TwiceNext]_vars

\* ---------------------------------------------------- the run asked to stop

\* the environment raises the cancellation signal (a deadline passes, the
\* caller aborts).  _download_media takes no such signal and nothing in
\* runner or fetch_one reads one.
Cancel ==
    /\ stage = "running" /\ ~cancelled
    /\ cancelled' = TRUE
    /\ UNCHANGED <<inputs, files, media_files, stage, tasks, pc, attempt, backoff, sem,
                   cur, pbar, nreq, sleeps, outcome, fontvars, ran, run, firstOk, cfgerror>>

CancelNext == Next \/ Cancel

CancelSpec == Init /\ [][CancelNext]_vars

\* ------------------------------------------- the engine and a scripted server

\* two records with the same tweet_id, a reference each
RowsTwin == <<Row("t1", <<Url(HostGood, "jpg")>>), Row("t1", <<Url(HostSub, "JPG")>>)>>

ScriptedRows == {RowsThree, RowsPair, RowsTwin}

\* a call of _download_media with an empty cache directory, the server's
\* answers to each task fixed in advance
ScriptedInit ==
    /\ \E c \in 1..MaxConc :
           args = [version |-> FALSE, init |-> FALSE, csv |-> TRUE, concurrency |-> c]
    /\ rows \in ScriptedRows
    /\ files = NoFiles
    /\ allow_hosts = << <<"p", ".", "c">> >>
    /\ script \in [1..Len(BuildTasks(rows, allow_hosts)) ->
                      {Script(s.k, s.last) : s \in Scripts}]
    /\ media_files = [r \in 1..Len(rows) |-> <<>>]
    /\ stage = "media"
    /\ ran = {"fonts", "read"}
    /\ fontfiles = [f \in FontNames |-> OldFile(MaxBytes)]
    /\ NoFontLoop
    /\ NoRun

ScriptedSpec == ScriptedInit /\ [][Next]_vars

\* ================================================================= claims

IsPrefix(s, t) == Len(s) =< Len(t) /\ \A i \in 1..Len(s) : s[i] = t[i]
Count(s, x) == Cardinality({k \in 1..Len(s) : s[k] = x})
Done(t) == pc[t] = "done"

\* C1: at every instant the number of client.get calls in flight is at most
\* the concurrency level.
C1_ConcurrencyCap == Cardinality(InFlight) =< args.concurrency

\* as many requests in flight as allowed, one of them a retry, a task waiting
C1_Witness ==
    /\ Cardinality(InFlight) = args.concurrency
    /\ \E t \in TaskIds : pc[t] = "wait"
    /\ \E t \in InFlight : nreq[t] > 1

\* A host is permitted when, case folded, it is an allowed host or ends in
\* a dot and an allowed host; a reference is permitted when a host can be
\* read from it and that host is permitted.
SameFolded(a, b) == LowerChar(a) = LowerChar(b)
HostPermitted(host, allow) ==
    \E k \in 1..Len(allow) :
        LET d == Len(host) - Len(allow[k])
        IN  /\ d >= 0
            /\ \A j \in 1..Len(allow[k]) : SameFolded(host[d + j], allow[k][j])
            /\ d > 0 => host[d] = "."

Permitted(url, allow) == url.parses /\ HostPermitted(url.host, allow)

\* C2: a reference whose host is not permitted (the empty host included) gets
\* no task, so no request, no file and no attachment: no request ever goes
\* to a host that is not permitted, no task stands for the reference and its
\* record holds nothing for it.
C2_AllowlistSound ==
    /\ \A t \in TaskIds : nreq[t] > 0 => Permitted(tasks[t].url, allow_hosts)
    /\ \A r \in 1..Len(rows) : \A i \in 1..Len(rows[r].media_urls) :
          ~Permitted(rows[r].media_urls[i], allow_hosts) =>
              /\ \A t \in TaskIds : ~(tasks[t].row = r /\ tasks[t].idx = i - 1)
              /\ Count(media_files[r], OutPath(rows[r], i - 1, rows[r].media_urls[i])) = 0
    /\ \A d \in Dests : files[d].by # 0 =>
          /\ files[d].by \in TaskIds
          /\ tasks[files[d].by].out = d
          /\ nreq[files[d].by] > 0

\* the run is over, the permitted references were fetched, the others not
C2_Witness ==
    /\ stage = "render" /\ rows = RowsThree
    /\ \A t \in TaskIds : outcome[t] = "ok"
    /\ Len(tasks) = 3

\* C3: a task makes at most 4 requests; the delays it sleeps between them are
\* 1, 2, 4 in this order; after the fourth failure it stops.  The same for
\* the font being downloaded.
C3_RetryBound ==
    /\ \A t \in TaskIds :
          /\ nreq[t] =< 4
          /\ IsPrefix(sleeps[t], <<1, 2, 4>>)
          /\ Len(sleeps[t]) < 4
          /\ pc[t] \in {"inflight", "got"} => nreq[t] = Len(sleeps[t]) + 1
          /\ pc[t] \in {"sleep", "wait"} => nreq[t] = Len(sleeps[t])
          /\ outcome[t] = "exhausted" => nreq[t] = 4 /\ sleeps[t] = <<1, 2, 4>>
    /\ fnreq =< 4
    /\ IsPrefix(fsleeps, <<1, 2, 4>>)
    /\ stage = "fontloop" => fnreq = Len(fsleeps)
    /\ fontfail = "exhausted" => fnreq = 4 /\ fsleeps = <<1, 2, 4>>

\* a media task has failed four times
C3_Witness ==
    \E t \in TaskIds : outcome[t] = "exhausted" /\ sleeps[t] = <<1, 2, 4>> /\ nreq[t] = 4

\* C4: a task that starts with a non-empty file at its destination ends in
\* that step, without a request, the file untouched, its destination
\* attached; and it stays so.
C4_CacheHit ==
    /\ [][\A t \in TaskIds :
            (/\ t \in DOMAIN pc /\ t \in DOMAIN pc'
             /\ pc[t] = "new" /\ pc'[t] # "new"
             /\ files[tasks[t].out].exists /\ files[tasks[t].out].size > 0)
            => /\ pc'[t] = "done"
               /\ nreq'[t] = 0
               /\ files' = files
               /\ media_files'[tasks[t].row] = Append(media_files[tasks[t].row], tasks[t].out)]_vars
    /\ [](\A t \in TaskIds : outcome[t] = "hit" =>
            /\ nreq[t] = 0
            /\ files[tasks[t].out].by = 0 /\ files[tasks[t].out].size > 0
            /\ Count(media_files[tasks[t].row], tasks[t].out) = 1)

\* one task found its file, another had to fetch
C4_Witness ==
    /\ stage = "render"
    /\ \E t \in TaskIds : outcome[t] = "hit"
    /\ \E t \in TaskIds : outcome[t] = "ok"

\* C5: in a second call on the same rows and cache directory, a task that
\* succeeded in the first call makes no request, ends as a cache hit and
\* attaches the same destination to the same record once more.
C5_Idempotent ==
    (run = 2 /\ stage \in {"running", "render"}) =>
        \A t \in firstOk :
            /\ t \in TaskIds
            /\ nreq[t] = 0
            /\ pc[t] \in {"new", "done"}
            /\ Done(t) =>
                  /\ outcome[t] = "hit"
                  /\ Count(media_files[tasks[t].row], tasks[t].out) = 2

\* the second call is over: a task fetched in the first call was a cache hit
\* now, and a task that failed in the first call asked again
C5_Witness ==
    /\ run = 2 /\ stage = "render"
    /\ \E t \in firstOk : files[tasks[t].out].by = t /\ outcome[t] = "hit"
    /\ \E t \in TaskIds \ firstOk : nreq[t] > 0

\* C6 as stated: whatever its status, a response with a body larger than
\* max_bytes ends the task there, with no file, no attachment and no sleep.
C6_AsStated ==
    [][(cur.task # 0 /\ ~cur.resp.err /\ cur.resp.size > MaxBytes) =>
          /\ pc'[cur.task] = "done"
          /\ sleeps' = sleeps
          /\ files' = files
          /\ media_files' = media_files]_vars

\* C6 amended: a response with a body larger than max_bytes never writes a
\* file nor attaches anything at that attempt; when its status is not one of
\* the transient ones it also ends the task there, with no sleep and no further
\* request.  (With a transient status the task retries as for any such status.)
C6_Oversize ==
    /\ [][(cur.task # 0 /\ ~cur.resp.err /\ cur.resp.size > MaxBytes) =>
            /\ files' = files
            /\ media_files' = media_files
            /\ cur.resp.status \notin {429, 500, 502, 503, 504} =>
                  /\ pc'[cur.task] = "done"
                  /\ sleeps' = sleeps]_vars
    /\ [][\A t \in TaskIds :
            (t \in DOMAIN outcome' /\ outcome[t] = "oversize") =>
                /\ pc'[t] = "done" /\ nreq'[t] = nreq[t] /\ sleeps'[t] = sleeps[t]
                /\ files'[tasks[t].out].by # t]_vars

\* a task ended on a 200 with too large a body: no file, nothing attached
C6_Witness ==
    \E t \in TaskIds :
        /\ outcome[t] = "oversize" /\ Done(t)
        /\ ~files[tasks[t].out].exists
        /\ media_files[tasks[t].row] = <<>>

\* C7: a response with a status that is neither 200 nor one of 429, 500, 502,
\* 503, 504 ends the task at that attempt: no sleep, no file, and no request
\* afterwards.
C7_PermanentStatus ==
    /\ [][(/\ cur.task # 0 /\ ~cur.resp.err
           /\ cur.resp.status \notin {200, 429, 500, 502, 503, 504}) =>
            /\ pc'[cur.task] = "done"
            /\ sleeps' = sleeps
            /\ files' = files
            /\ media_files' = media_files]_vars
    /\ [][\A t \in TaskIds :
            (t \in DOMAIN outcome' /\ outcome[t] = "status") =>
                /\ pc'[t] = "done" /\ nreq'[t] = nreq[t] /\ sleeps'[t] = sleeps[t]]_vars

\* a 404 answered a retry: the task ended there
C7_Witness ==
    \E t \in TaskIds :
        /\ outcome[t] = "status" /\ Done(t) /\ nreq[t] = 2
        /\ ~files[tasks[t].out].exists

\* C8: no failure of a task aborts the batch.  While the tasks run something
\* can always happen; handling one task's response changes no other task;
\* once a run has begun main() never ends in a fatal error; and the stages
\* after the run begin only with every task at its terminal outcome.
C8_NoAbort ==
    /\ [](stage = "running" => ENABLED Next)
    /\ []("media" \in ran => stage # "fatal")
    /\ []((stage \in {"render", "cleanup", "exit"} /\ "media" \in ran) =>
            /\ \A t \in TaskIds : Done(t) /\ outcome[t] # "none"
            /\ pbar = Len(tasks))
    /\ [][cur.task # 0 => \A u \in TaskIds \ {cur.task} :
            pc'[u] = pc[u] /\ outcome'[u] = outcome[u]]_vars

\* main() ran to its end although one task gave up after four failures and
\* the other was fetched
C8_Witness ==
    /\ stage = "exit" /\ "render" \in ran /\ "cleanup" \in ran
    /\ \E t \in TaskIds : outcome[t] = "exhausted"
    /\ \E t \in TaskIds : outcome[t] = "ok"

\* C9 as stated: once the cancellation signal is raised no request starts,
\* no file is written, nothing is attached, and every task that ends ends as
\* cancelled.
C9_AsStated ==
    [][cancelled =>
          /\ nreq' = nreq
          /\ files' = files
          /\ media_files' = media_files
          /\ \A t \in TaskIds : (pc[t] # "done" /\ pc'[t] = "done") => outcome'[t] = "cancelled"]_vars

\* C10: a font download that gives up is fatal: main() ends in the fatal
\* error and reads no CSV, downloads no media, renders nothing; a media task
\* that gives up is not.
C10_FontFatal ==
    /\ fontfail # "none" =>
          /\ stage = "fatal"
          /\ ran \cap {"read", "media", "render", "cleanup"} = {}
    /\ (\E t \in TaskIds : outcome[t] = "exhausted") => stage # "fatal"
    /\ stage \in {"read", "media", "running", "render", "cleanup"} =>
          \A f \in FontNames : fontfiles[f].exists

\* a font failed four times and main() stopped
C10_Witness ==
    /\ fontfail = "exhausted" /\ stage = "fatal"
    /\ fnreq = 4 /\ ran = {"fonts"} /\ ~args.init

\* no font was written, no stage of main() has begun, no task exists
NoWorkDone ==
    /\ ran = {}
    /\ \A f \in FontNames : fontfiles[f].by = 0
    /\ tasks = <<>>
    /\ \A d \in Dests : files[d].by = 0

\* C11 as stated: in every invocation with a concurrency of 0 or less no work
\* is ever done.
C11_AsStated == args.concurrency < 1 => NoWorkDone

\* C11: in an invocation without --version and without --init, a concurrency
\* of 0 or less ends main() in a configuration error before any work: the
\* error about --concurrency when --csv is given, the error about the
\* missing --csv otherwise.  No font is fetched, no row read, no task built.
C11_ConfigError ==
    (args.concurrency < 1 /\ ~args.version /\ ~args.init) =>
        /\ stage \in {"start", "fatal"}
        /\ NoWorkDone
        /\ stage = "fatal" => cfgerror = (IF args.csv THEN "concurrency" ELSE "csv")
        /\ stage = "start" => cfgerror = "none"

\* main() has refused --concurrency 0 with fonts missing and a CSV given
C11_Witness ==
    /\ args.concurrency < 1 /\ args.csv /\ ~args.init /\ ~args.version
    /\ stage = "fatal" /\ cfgerror = "concurrency"
    /\ \E f \in FontNames : ~fontfiles[f].exists

Succeeded(t) == outcome[t] \in {"hit", "ok"}

\* C12: during and after a run of _download_media, the destination of a task
\* stands in the media_files of the task's record once if the task has ended
\* in success (cache hit or fetch) and not at all otherwise; every entry of a
\* record is the destination of a successful task of that record and names
\* an existing, non-empty file.
C12_AttachedIffSuccess ==
    /\ \A t \in TaskIds :
          Count(media_files[tasks[t].row], tasks[t].out) = IF Succeeded(t) THEN 1 ELSE 0
    /\ tasks # <<>> =>
          \A r \in 1..Len(media_files) :
             /\ Len(media_files[r]) = Cardinality({t \in TaskIds : tasks[t].row = r /\ Succeeded(t)})
             /\ \A k \in 1..Len(media_files[r]) :
                   /\ \E t \in TaskIds :
                         tasks[t].row = r /\ tasks[t].out = media_files[r][k] /\ Succeeded(t)
                   /\ files[media_files[r][k]].exists
                   /\ files[media_files[r][k]].size > 0

\* the run is over; of two tasks of one record one was fetched and is
\* attached, the other failed and is not; a task of another record was
\* fetched as well
C12_Witness ==
    /\ stage = "render"
    /\ \E t, u, v \in TaskIds :
          /\ tasks[t].row = tasks[u].row /\ tasks[v].row # tasks[t].row
          /\ outcome[t] = "ok" /\ outcome[v] = "ok"
          /\ outcome[u] \in {"oversize", "status", "exhausted"}
          /\ media_files[tasks[t].row] = <<tasks[t].out>>

\* C13 as stated: any two distinct tasks of a run have different destinations.
C13_AsStated ==
    \A t, u \in TaskIds : t # u => tasks[t].out # tasks[u].out

\* what fetch_one makes of one response: "retry", or the outcome it ends with
Verdict(r) ==
    IF r.err THEN "retry"
    ELSE IF r.status = StatusOK /\ r.size > 0
         THEN (IF r.size > MaxBytes THEN "oversize" ELSE "ok")
    ELSE IF r.status \in TransientStatuses THEN "retry"
    ELSE "status"

\* the outcome the script of task t leads to when nothing is in the cache
ScriptedOutcome(t) ==
    LET final == {i \in 1..MaxAttempts : Verdict(script[t][i]) # "retry"}
    IN  IF final = {} THEN "exhausted"
        ELSE Verdict(script[t][CHOOSE i \in final : \A j \in final : i =< j])

\* the destinations of the tasks of record r that the scripts let succeed,
\* in the order of the references
ScriptedFiles(r) ==
    LET Mine(t) == tasks[t].row = r /\ ScriptedOutcome(t) = "ok"
        mine == SelectSeq([t \in TaskIds |-> t], Mine)
    IN  [k \in 1..Len(mine) |-> tasks[mine[k]].out]

\* C14 as stated: with the answers to every task fixed, the run ends with the
\* same outcome of each task and the same media_files list of each record
\* whatever the interleaving: those the scripts alone determine.
C14_AsStated ==
    stage = "render" =>
        /\ \A t \in TaskIds : outcome[t] = ScriptedOutcome(t)
        /\ \A r \in 1..Len(rows) : media_files[r] = ScriptedFiles(r)

\* C15 as stated: an empty file counts as absent for the media cache and for
\* the fonts: no task ends as a cache hit on an empty file, and once
\* _ensure_fonts has returned no font file is empty (an empty one was fetched
\* again, or the run ended in an error).
C15_AsStated ==
    /\ \A t \in TaskIds : outcome[t] = "hit" => files[tasks[t].out].size > 0
    /\ ("fonts" \in ran /\ stage \notin {"start", "fonts", "fontloop", "fatal"}) =>
          \A f \in FontNames : fontfiles[f].exists /\ fontfiles[f].size > 0

\* the number of failures the script of task t begins with
LeadingFailures(t) ==
    LET final == {i \in 1..MaxAttempts : Verdict(script[t][i]) # "retry"}
    IN  IF final = {} THEN MaxAttempts
        ELSE (CHOOSE i \in final : \A j \in final : i =< j) - 1

\* C16: a task whose requests meet k transient failures (k from 0 to 3) and
\* then a 200 with a valid body ends in success after exactly k + 1 requests,
\* whatever the concurrency and the other tasks do; a task whose requests
\* meet 4 transient failures ends in failure after exactly 4 requests and
\* has written no file.  No task ever makes more requests than that.  With
\* three tasks answered 200, 200 and 503-then-200 at concurrency 2 all three
\* succeed and the third has made exactly 2 requests.
C16_RetryExact ==
    /\ script # NoScript =>
          \A t \in TaskIds :
             LET k == LeadingFailures(t)
             IN  /\ nreq[t] =< (IF k < MaxAttempts THEN k + 1 ELSE MaxAttempts)
                 /\ (Done(t) /\ k < MaxAttempts /\ script[t][k + 1] = GoodBody) =>
                       /\ outcome[t] = "ok"
                       /\ nreq[t] = k + 1
                       /\ Len(sleeps[t]) = k
                       /\ files[tasks[t].out].exists
                       /\ Count(media_files[tasks[t].row], tasks[t].out) = 1
                 /\ (Done(t) /\ k = MaxAttempts) =>
                       /\ outcome[t] = "exhausted"
                       /\ nreq[t] = 4
                       /\ files[tasks[t].out].by # t
                       /\ Count(media_files[tasks[t].row], tasks[t].out) = 0
    /\ (/\ stage = "render" /\ rows = RowsThree /\ args.concurrency = 2
        /\ script = <<Script(0, GoodBody), Script(0, GoodBody), Script(1, GoodBody)>>) =>
          /\ \A t \in TaskIds : outcome[t] = "ok"
          /\ nreq = <<1, 1, 2>>

\* the run of the three tasks at concurrency 2 is over: three successes, the
\* third after a 503 and one sleep
C16_Witness ==
    /\ stage = "render" /\ rows = RowsThree /\ args.concurrency = 2
    /\ script = <<Script(0, GoodBody), Script(0, GoodBody), Script(1, GoodBody)>>
    /\ outcome = <<"ok", "ok", "ok">>
    /\ nreq = <<1, 1, 2>>
    /\ sleeps[3] = <<1>>

\* C17: the free slots and the requests in flight add up to the concurrency
\* at every instant of a run; a slot is taken exactly when a request goes out
\* and given back exactly when its response or error arrives; so a task that
\* sleeps, waits, handles a response or has ended holds no slot.
C17_SlotAccounting ==
    /\ [](stage \in {"running", "render"} =>
             /\ sem >= 0
             /\ sem + Cardinality(InFlight) = args.concurrency
             /\ \A t \in TaskIds : pc[t] = "inflight" => nreq[t] > 0)
    /\ [][\A t \in TaskIds :
            (t \in DOMAIN pc /\ t \in DOMAIN pc' /\ stage = "running") =>
               /\ (pc[t] # "inflight" /\ pc'[t] = "inflight") =>
                     sem' = sem - 1 /\ nreq'[t] = nreq[t] + 1
               /\ (pc[t] = "inflight" /\ pc'[t] # "inflight") =>
                     sem' = sem + 1 /\ pc'[t] = "got"]_vars

\* at concurrency 1 a task sleeps after a failure while another task's
\* request is in flight: the sleeper has given its slot back
C17_Witness ==
    /\ stage = "running" /\ args.concurrency = 1
    /\ \E t, u \in TaskIds :
          /\ pc[t] = "sleep" /\ sleeps[t] # <<>>
          /\ pc[u] = "inflight"
    /\ sem = 0

\* the host whose response r is, r being returned to task t
ServedBy(t, r) == IF r.redirect = NoRedirect THEN tasks[t].url.host ELSE r.redirect

\* C18 as stated: no response handled by a task comes from a host that is
\* not permitted; were one to come, the task would end at once as a
\* permanent failure and no file would change.
C18_AsStated ==
    /\ [](cur.task # 0 => HostPermitted(ServedBy(cur.task, cur.resp), allow_hosts))
    /\ [][(cur.task # 0 /\ ~HostPermitted(ServedBy(cur.task, cur.resp), allow_hosts)) =>
            /\ files' = files
            /\ outcome'[cur.task] = "status"]_vars

\* C19: under fair scheduling every run of _download_media returns; every
\* task has then ended with exactly one outcome, which it keeps; the progress
\* bar goes up by one exactly when a task ends, and at the return it shows
\* the number of tasks.
C19_Terminates ==
    /\ <>(stage = "render")
    /\ [](stage \in {"running", "render"} =>
             pbar = Cardinality({t \in TaskIds : Done(t)}))
    /\ [](stage = "render" =>
             /\ pbar = Len(tasks)
             /\ \A t \in TaskIds : Done(t) /\ outcome[t] # "none")
    /\ [][\A t \in TaskIds :
            (t \in DOMAIN pc /\ t \in DOMAIN pc' /\ stage = "running") =>
               /\ Done(t) => pc'[t] = "done" /\ outcome'[t] = outcome[t]
               /\ (~Done(t) /\ pc'[t] = "done") =>
                     pbar' = pbar + 1 /\ outcome[t] = "none" /\ outcome'[t] # "none"
               /\ pc'[t] # "done" => outcome'[t] = "none"]_vars
    /\ [][stage = "running" =>
            pbar' = pbar + Cardinality({t \in TaskIds : ~Done(t) /\ pc'[t] = "done"})]_vars

\* the run has returned: three tasks, one of them after waiting for a slot
\* and retrying, one given up after four failures
C19_Witness ==
    /\ stage = "render" /\ Len(tasks) = 3 /\ pbar = 3
    /\ args.concurrency < 3
    /\ \E t, u \in TaskIds :
          /\ outcome[t] = "ok" /\ nreq[t] > 1
          /\ outcome[u] = "exhausted"

====
